---- MODULE Spec2Model ----
(***************************************************************************)
(* A model of the AudioSwitch tray utility (src/src/main.rs): the device   *)
(* list with its selectable flags, the popup menu built from it, the menu  *)
(* id codec, the persisted selectable-state file, the rotation performed   *)
(* by next_device and the toggle performed by menu_selection.              *)
(***************************************************************************)
EXTENDS Integers, Sequences, FiniteSets, TLC

VARIABLES
    pc,                 \* position of the process: start, running, quitting, exited, aborted, crashed
    available_devices,  \* AudioSwitch.available_devices: sequence of [id, selectable]
    popup_menu,         \* items of AudioSwitch.popup_menu in menu order: [wID, checked]
    os_default,         \* the endpoint the OS uses as default render device (eConsole)
    config_file,        \* device_config.json: [kind, map]
    tooltip,            \* the device the tray icon and tooltip show
    close_posted,       \* a WM_CLOSE message is in the window's queue
    faults,             \* the native calls that have failed since the message loop started
    last,               \* the handler that ran last, its input and its result
    logged,             \* what the handler that ran last wrote with error!
    native              \* the native resources acquired by main and not released

vars == <<pc, available_devices, popup_menu, os_default, config_file, tooltip,
          close_posted, faults, last, logged, native>>

----------------------------------------------------------------------------
(* Bounds of the model.                                                    *)

\* The longest list of endpoints an enumeration returns.
MaxDevices == 3

\* The most keys a configuration file found at startup holds.
MaxSavedKeys == 1

\* The most native calls that fail while the message loop runs.
MaxFaults == 1

----------------------------------------------------------------------------
(* The endpoints of the model.  Identifiers are strings; as_bytes gives    *)
(* their UTF-8 bytes, which is what the codec reads.                       *)

AllIds == {"spk", "usb", "asm", "GCr"}

NoDevice == "<none>"

None == -1

as_bytes(device_id) ==
    CASE device_id = "spk" -> <<115, 112, 107>>
      [] device_id = "usb" -> <<117, 115, 98>>
      [] device_id = "asm" -> <<97, 115, 109>>
      [] device_id = "GCr" -> <<71, 67, 114>>

\* The length in UTF-16 code units of each endpoint's friendly name.
FriendlyNameLen(device_id) ==
    IF device_id = "GCr" THEN 130 ELSE 12

\* The size of NOTIFYICONDATAW.szTip.
TipLen == 128

----------------------------------------------------------------------------
(* The menu-id codec: CRC-16/ARC (reflected polynomial 0xA001, initial     *)
(* value 0, no final xor) of the identifier's bytes.                       *)

RECURSIVE BitXor(_, _)
BitXor(a, b) ==
    IF a = 0 THEN b
    ELSE IF b = 0 THEN a
    ELSE ((a + b) % 2) + 2 * BitXor(a \div 2, b \div 2)

\* Mutant: the polynomial is written with its x^16 term (0x1A001).
RECURSIVE crc16_bits_wide(_, _)
crc16_bits_wide(crc, k) ==
    IF k = 0 THEN crc
    ELSE crc16_bits_wide(IF crc % 2 = 1 THEN BitXor(crc \div 2, 106497)
                         ELSE crc \div 2,
                         k - 1)

RECURSIVE crc16_bits(_, _)
crc16_bits(crc, k) ==
    IF k = 0 THEN crc
    ELSE crc16_bits(IF crc % 2 = 1 THEN BitXor(crc \div 2, 40961) ELSE crc \div 2,
                    k - 1)

RECURSIVE crc16_arc(_, _)
crc16_arc(crc, bytes) ==
    IF bytes = <<>> THEN crc
    ELSE crc16_arc(crc16_bits(BitXor(crc, Head(bytes)), 8), Tail(bytes))

POPUP_EXIT_ID == 1
POPUP_CURRENT_DEVICE_ID == 2

\* State::<crc16::ARC>::calculate(device_id.as_bytes()) as u32
calculate(device_id) == crc16_arc(0, as_bytes(device_id))

\* The codec's value for each endpoint of the model, computed once.
MenuIdOf == [d \in AllIds |-> calculate(d)]

device_id_to_menu_id(device_id) == MenuIdOf[device_id]

LOWORD(l) == l % 65536

----------------------------------------------------------------------------
(* Small helpers.                                                          *)

Min(S) == CHOOSE x \in S : \A y \in S : x <= y

Max(S) == CHOOSE x \in S : \A y \in S : y <= x

\* Rust indices start at 0: element i of a Vec is element i + 1 of the sequence.
Indices(devices) == 0 .. (Len(devices) - 1)

----------------------------------------------------------------------------
(* The selectable-state store.  The file is absent, holds text that is no  *)
(* JSON object of booleans (malformed), or holds a JSON object, which is   *)
(* a map from identifiers to booleans.                                     *)

EmptyMap == [d \in {} |-> TRUE]

\* serde_json::to_string_pretty(&device_states): the text of a JSON object,
\* kept as its members "key": value; a HashMap is written in no fixed order.
to_string_pretty(device_states) ==
    {<<d, device_states[d]>> : d \in DOMAIN device_states}

\* serde_json::from_str::<HashMap<String, bool>>(&json_data): the map of the
\* members of the object.
from_str(json_data) ==
    [d \in {m[1] : m \in json_data} |-> \E m \in json_data : m[1] = d /\ m[2]]

AbsentFile == [kind |-> "absent", text |-> {}]

MalformedFile == [kind |-> "malformed", text |-> {}]

JsonFile(json_data) == [kind |-> "json", text |-> json_data]

\* Mutant: only the selectable devices are written.
device_states_selectable_only(devices) ==
    [d \in {devices[i].id : i \in {j \in 1..Len(devices) : devices[j].selectable}} |-> TRUE]

\* devices.iter().map(|d| (id, selectable)).collect::<HashMap>(): of two
\* entries with one key the later one stays.
device_states(devices) ==
    [d \in {devices[i].id : i \in 1..Len(devices)} |->
        devices[Max({i \in 1..Len(devices) : devices[i].id = d})].selectable]

\* fail names the call that fails, "none" when every call succeeds.  A failed
\* fs::write leaves the file as it was (it could not be created) or
\* truncated (created, then not written).
save_device_selectable_state(devices, file, fail) ==
    IF fail = "get_config_file_path" THEN [result |-> "Err", file |-> file]
    ELSE IF fail = "fs::write" THEN [result |-> "Err", file |-> file]
    ELSE IF fail = "fs::write(truncated)" THEN [result |-> "Err", file |-> MalformedFile]
    ELSE [result |-> "Ok",
          file |-> JsonFile(to_string_pretty(device_states(devices)))]

SaveFailures == {"get_config_file_path", "fs::write", "fs::write(truncated)"}

\* result is "Ok" or the name of the call whose error is returned.
load_device_selectable_state(file, fail) ==
    IF fail = "get_config_file_path" THEN [result |-> fail, map |-> EmptyMap]
    ELSE IF file.kind = "absent" THEN [result |-> "Ok", map |-> EmptyMap]
    ELSE IF fail = "fs::read_to_string" THEN [result |-> fail, map |-> EmptyMap]
    ELSE IF file.kind = "malformed"
         THEN [result |-> "serde_json::from_str", map |-> EmptyMap]
    ELSE [result |-> "Ok", map |-> from_str(file.text)]

\* Mutant: a device without a saved state is made unselectable.
apply_device_selectable_state_closed(devices, saved_states) ==
    [i \in 1..Len(devices) |->
        IF devices[i].id \in DOMAIN saved_states
        THEN [devices[i] EXCEPT !.selectable = saved_states[devices[i].id]]
        ELSE [devices[i] EXCEPT !.selectable = FALSE]]

apply_device_selectable_state(devices, saved_states) ==
    [i \in 1..Len(devices) |->
        IF devices[i].id \in DOMAIN saved_states
        THEN [devices[i] EXCEPT !.selectable = saved_states[devices[i].id]]
        ELSE devices[i]]

----------------------------------------------------------------------------
(* The popup menu.  An item is [wID, checked]; an item inserted without    *)
(* MIIM_ID has wID 0.                                                      *)

MenuItem(id, checked) == [wID |-> id, checked |-> checked]

\* InsertMenuItemW(menu, 0, true, item): the item becomes the first one.
InsertMenuItemW(menu, item) == <<item>> \o menu

\* for device in devices.iter().rev() { InsertMenuItemW(menu, 0, ...) }
RECURSIVE insert_devices(_, _)
insert_devices(menu, devices) ==
    IF devices = <<>> THEN menu
    ELSE LET device == devices[Len(devices)]
         IN insert_devices(
                InsertMenuItemW(menu,
                    MenuItem(device_id_to_menu_id(device.id), device.selectable)),
                SubSeq(devices, 1, Len(devices) - 1))

create_popup_menu(devices) ==
    LET exit      == InsertMenuItemW(<<>>, MenuItem(POPUP_EXIT_ID, FALSE))
        sep1      == InsertMenuItemW(exit, MenuItem(0, FALSE))
        withdevs  == insert_devices(sep1, devices)
        sep2      == InsertMenuItemW(withdevs, MenuItem(0, FALSE))
        current   == InsertMenuItemW(sep2, MenuItem(POPUP_CURRENT_DEVICE_ID, FALSE))
    IN  InsertMenuItemW(current, MenuItem(0, FALSE))

\* The item Get/SetMenuItemInfoW(menu, id, false, ..) address: the first item
\* of the menu with that identifier; None when there is none.
MenuItemFromID(menu, id) ==
    LET S == {k \in 1..Len(menu) : menu[k].wID = id}
    IN  IF S = {} THEN None ELSE Min(S)

----------------------------------------------------------------------------
(* The rotation of next_device.                                            *)

\* available_devices.iter().position(|d| d.id == current_device)
position(devices, device_id) ==
    LET S == {i \in Indices(devices) : devices[i + 1].id = device_id}
    IN  IF S = {} THEN None ELSE Min(S)

\* Mutant: a current device that is not in the list counts as the last one.
current_index_or_last(devices, current_device) ==
    IF position(devices, current_device) = None THEN Len(devices) - 1
    ELSE position(devices, current_device)

\* .unwrap_or(0)
current_index(devices, current_device) ==
    IF position(devices, current_device) = None THEN 0
    ELSE position(devices, current_device)

\* Mutant: the filter on selectable is forgotten.
selectable_devices_unfiltered(devices) ==
    [k \in 1..Len(devices) |-> k - 1]

\* available_devices.iter().enumerate().filter(|(_, d)| d.selectable): the
\* indices of the selectable devices, in list order.
selectable_devices(devices) ==
    SelectSeq([k \in 1..Len(devices) |-> k - 1],
              LAMBDA i : devices[i + 1].selectable)

\* Mutant: no wraparound to the first selectable device.
cand_device_no_wrap(devices, current_device) ==
    LET sel   == selectable_devices(devices)
        after == SelectSeq(sel, LAMBDA i : i > current_index(devices, current_device))
    IN  IF after # <<>> THEN Head(after) ELSE None

\* Mutant: the comparison with the current index is >= instead of >.
cand_device_ge(devices, current_device) ==
    LET sel   == selectable_devices(devices)
        after == SelectSeq(sel, LAMBDA i : i >= current_index(devices, current_device))
    IN  IF sel = <<>> THEN None
        ELSE IF after # <<>> THEN Head(after)
        ELSE Head(sel)

\* .find(|(i, _)| *i > current_index).or_else(|| selectable_devices.first()):
\* the index of the candidate, None when no device is selectable.
cand_device(devices, current_device) ==
    LET sel   == selectable_devices(devices)
        after == SelectSeq(sel, LAMBDA i : i > current_index(devices, current_device))
    IN  IF sel = <<>> THEN None
        ELSE IF after # <<>> THEN Head(after)
        ELSE Head(sel)

----------------------------------------------------------------------------
(* The initial state: the process is about to run main.                    *)

\* What the last handler did: its name, its input (the menu id given to
\* menu_selection, the index next_device found the current device at), what it
\* returned ("Ok", or the name of the call whose error it returned, or "Panic"),
\* the device it handed to set_default_endpoint, and the result of the save
\* it made.
Did(op, arg, ret, target, save) ==
    [op |-> op, arg |-> arg, ret |-> ret, target |-> target, save |-> save]

\* Nothing was written with error!.
NoError == "none"

\* The native resources main acquires: com counts the CoInitializeEx calls of
\* main and of the functions it calls that no CoUninitialize has balanced
\* (a call that returns S_FALSE counts, and needs its CoUninitialize too);
\* class is the registered window class, window the window made of it, menu
\* the popup menu handle and tray the notification icon.
NoResources ==
    [com |-> 0, class |-> FALSE, window |-> FALSE, menu |-> FALSE, tray |-> FALSE]

\* CoInitializeEx(None, COINIT_APARTMENTTHREADED).ok()?
CoInitializeEx(held) == [held EXCEPT !.com = @ + 1]

\* defer!({ CoUninitialize(); })
CoUninitialize(held) == [held EXCEPT !.com = IF @ > 0 THEN @ - 1 ELSE 0]

\* RegisterClassExW(..), whose result is not looked at.
RegisterClassExW(held) == [held EXCEPT !.class = TRUE]

\* defer!({ let _ = UnregisterClassW(..); }): the call fails, and the class
\* stays registered, while a window of the class exists.
UnregisterClassW(held) == [held EXCEPT !.class = @ /\ held.window]

CreateWindowExW(held) == [held EXCEPT !.window = TRUE]

\* DefWindowProcW on WM_CLOSE: DestroyWindow.
DestroyWindow(held) == [held EXCEPT !.window = FALSE]

CreatePopupMenu(held) == [held EXCEPT !.menu = TRUE]

\* impl Drop for AudioSwitch: DestroyMenu(self.popup_menu)
DestroyMenu(held) == [held EXCEPT !.menu = FALSE]

\* Shell_NotifyIconW(NIM_ADD, ..) and the deferred Shell_NotifyIconW(NIM_DELETE, ..)
NIM_ADD(held) == [held EXCEPT !.tray = TRUE]

NIM_DELETE(held) == [held EXCEPT !.tray = FALSE]

\* What is left when main returns (or unwinds) holding held: the deferred
\* blocks registered so far run, the latest first, and me, the AudioSwitch, is
\* dropped if it was built.  The NIM_DELETE block is registered once NIM_ADD
\* has succeeded, the other two before anything they release is acquired.
leave_main(held, me) ==
    LET deleted == IF held.tray THEN NIM_DELETE(held) ELSE held
        dropped == IF me THEN DestroyMenu(deleted) ELSE deleted
        unreg   == IF held.class THEN UnregisterClassW(dropped) ELSE dropped
    IN  IF held.com > 0 THEN CoUninitialize(unreg) ELSE unreg

\* The order in which the OS lists its render endpoints.
EndpointOrder == <<"spk", "usb", "asm", "GCr">>

\* get_available_audio_devices: the endpoints that are active, in the order the
\* OS lists them, each selectable.
Enumerations ==
    {[i \in DOMAIN s |-> [id |-> s[i], selectable |-> TRUE]] :
        s \in {SelectSeq(EndpointOrder, LAMBDA d : d \in active) :
                  active \in {S \in SUBSET AllIds : Cardinality(S) <= MaxDevices}}}

\* The configuration files a startup may find.
InitialFiles ==
    {AbsentFile, MalformedFile} \cup
    {JsonFile(to_string_pretty(m)) : m \in UNION {[K -> BOOLEAN] :
                        K \in {S \in SUBSET AllIds : Cardinality(S) <= MaxSavedKeys}}}

Init ==
    /\ pc = "start"
    /\ available_devices = <<>>
    /\ popup_menu = <<>>
    /\ os_default \in AllIds
    /\ config_file \in InitialFiles
    /\ tooltip = NoDevice
    /\ close_posted = FALSE
    /\ faults = 0
    /\ last = Did("none", None, "-", NoDevice, "none")
    /\ logged = NoError
    /\ native = NoResources

----------------------------------------------------------------------------
(* main, up to the message loop.  fail names the first native call that    *)
(* fails, "none" when none does.                                           *)

StartupCalls ==
    <<"is_dark_mode", "CoInitializeEx", "GetModuleHandleW", "CreateWindowExW",
      "get_available_audio_devices", "get_config_file_path", "fs::read_to_string",
      "get_current_default_endpoint", "AdaptiveIcon::new(audio_icon)",
      "CreatePopupMenu", "InsertMenuItemW", "AdaptiveIcon::new(form factor icons)",
      "current_icon", "Shell_NotifyIconW(NIM_ADD)", "Shell_NotifyIconW(NIM_SETVERSION)">>

StartupFailures == {StartupCalls[k] : k \in 1..Len(StartupCalls)} \cup {"none"}

\* The place of a call in main; a call that does not fail comes after all.
CallOrder(call) ==
    IF call = "none" THEN Len(StartupCalls) + 1
    ELSE CHOOSE k \in 1..Len(StartupCalls) : StartupCalls[k] = call

FailsUpTo(fail, call) == CallOrder(fail) <= CallOrder(call)

FailsAfter(fail, call) == CallOrder(fail) > CallOrder(call)

\* main returns the error of the call named by how, or panics, holding held;
\* me tells whether the AudioSwitch has been built.
main_aborts(how, held, me) ==
    /\ pc' = (IF how = "Panic" THEN "crashed" ELSE "aborted")
    /\ last' = Did("main", None, how, NoDevice, "none")
    \* .inspect_err(|err| { error!("Failed to create window: ..") })
    /\ logged' = (IF how = "CreateWindowExW" THEN "Failed to create window"
                  ELSE NoError)
    /\ native' = leave_main(held, me)
    /\ UNCHANGED <<available_devices, popup_menu, os_default, config_file, tooltip,
                   close_posted, faults>>

main ==
    /\ pc = "start"
    /\ \E enumerated \in Enumerations, fail \in StartupFailures :
        LET loaded   == load_device_selectable_state(config_file, fail)
            devices  == apply_device_selectable_state(enumerated, loaded.map)
            \* what main holds after each acquisition, in the order of the code
            com      == CoInitializeEx(NoResources)
            class    == RegisterClassExW(com)
            window   == CreateWindowExW(class)
            \* get_current_default_endpoint starts with its own CoInitializeEx
            queried  == CoInitializeEx(window)
            menu     == CreatePopupMenu(queried)
            \* me.current_icon() calls get_current_default_endpoint again
            iconed   == CoInitializeEx(menu)
            added    == NIM_ADD(iconed)
        IN  IF FailsUpTo(fail, "CoInitializeEx") THEN main_aborts(fail, NoResources, FALSE)
            ELSE IF fail = "GetModuleHandleW" THEN main_aborts(fail, com, FALSE)
            ELSE IF fail = "CreateWindowExW" THEN main_aborts(fail, class, FALSE)
            ELSE IF fail = "get_available_audio_devices"
                 THEN main_aborts(fail, window, FALSE)
            \* let saved_states = load_device_selectable_state()?;
            ELSE IF loaded.result # "Ok" THEN main_aborts(loaded.result, window, FALSE)
            ELSE IF fail = "get_current_default_endpoint"
                 THEN main_aborts(fail, queried, FALSE)
            \* .find(|d| d.id == current_device_id).ok_or_else(..)?
            ELSE IF position(devices, os_default) = None
                 THEN main_aborts("Current device not found", queried, FALSE)
            ELSE IF fail \in {"AdaptiveIcon::new(audio_icon)", "CreatePopupMenu"}
                 THEN main_aborts(fail, queried, FALSE)
            \* the menu handle exists and no AudioSwitch owns it yet
            ELSE IF fail \in {"InsertMenuItemW", "AdaptiveIcon::new(form factor icons)"}
                 THEN main_aborts(fail, menu, FALSE)
            ELSE IF fail = "current_icon" THEN main_aborts(fail, iconed, TRUE)
            \* string_to_tip(&tooltip): assert!(encoded.len() < ret.len())
            ELSE IF ~(FriendlyNameLen(os_default) < TipLen)
                 THEN main_aborts("Panic", iconed, TRUE)
            ELSE IF fail = "Shell_NotifyIconW(NIM_ADD)"
                 THEN main_aborts(fail, iconed, TRUE)
            ELSE IF fail = "Shell_NotifyIconW(NIM_SETVERSION)"
                 THEN main_aborts(fail, added, TRUE)
            ELSE /\ pc' = "running"
                 /\ available_devices' = devices
                 /\ popup_menu' = create_popup_menu(devices)
                 /\ tooltip' = os_default
                 /\ last' = Did("main", None, "Ok", NoDevice, "none")
                 /\ logged' = NoError
                 /\ native' = added
                 /\ UNCHANGED <<os_default, config_file, close_posted, faults>>

----------------------------------------------------------------------------
(* The native calls that fail while the message loop runs are counted, and *)
(* at most MaxFaults of them fail.                                         *)

Injectable(failures) == IF faults < MaxFaults THEN failures ELSE {"none"}

Counted(fail) == IF fail = "none" THEN faults ELSE faults + 1

----------------------------------------------------------------------------
(* window_callback, TASKBAR_CB_ID / NIN_SELECT: next_device.  fail names   *)
(* the first native call that fails.                                       *)

\* The calls next_device makes, given the devices and the current default: a
\* call that is not made cannot fail.
NextDeviceFailures(devices, current_device) ==
    {"none", "get_current_default_endpoint"} \cup
    (IF cand_device(devices, current_device) = None THEN {}
     ELSE {"set_default_endpoint", "icon_for_form_factor",
           "Shell_NotifyIconW(NIM_MODIFY)"})

\* Mutant: the adapter reports its error after the endpoint has been switched.
set_default_endpoint_switches_first(device_id, current, fail) == device_id

\* set_default_endpoint(device_id, eConsole): the default endpoint after the
\* call, given the one before it; a call that fails has switched nothing.
set_default_endpoint(device_id, current, fail) ==
    IF fail = "set_default_endpoint" THEN current ELSE device_id

next_device(fail) ==
    LET current_device == os_default
        found  == position(available_devices, current_device)
        cand   == cand_device(available_devices, current_device)
        target == available_devices[cand + 1].id
    IN  IF fail = "get_current_default_endpoint"
        THEN /\ last' = Did("next_device", None, fail, NoDevice, "none")
             /\ UNCHANGED <<pc, available_devices, popup_menu, os_default, config_file,
                            tooltip, close_posted>>
        ELSE IF cand = None
        THEN /\ last' = Did("next_device", found, "Ok", NoDevice, "none")
             /\ UNCHANGED <<pc, available_devices, popup_menu, os_default, config_file,
                            tooltip, close_posted>>
        ELSE IF fail = "set_default_endpoint"
        THEN /\ os_default' = set_default_endpoint(target, os_default, fail)
             /\ last' = Did("next_device", found, fail, target, "none")
             /\ UNCHANGED <<pc, available_devices, popup_menu, config_file, tooltip,
                            close_posted>>
        ELSE IF fail = "icon_for_form_factor"
        THEN /\ os_default' = set_default_endpoint(target, os_default, fail)
             /\ last' = Did("next_device", found, fail, target, "none")
             /\ UNCHANGED <<pc, available_devices, popup_menu, config_file, tooltip,
                            close_posted>>
        \* string_to_tip(&tooltip): assert!(encoded.len() < ret.len())
        ELSE IF ~(FriendlyNameLen(target) < TipLen)
        THEN /\ os_default' = set_default_endpoint(target, os_default, fail)
             /\ pc' = "crashed"
             /\ last' = Did("next_device", found, "Panic", target, "none")
             /\ UNCHANGED <<available_devices, popup_menu, config_file, tooltip,
                            close_posted>>
        ELSE IF fail = "Shell_NotifyIconW(NIM_MODIFY)"
        THEN /\ os_default' = set_default_endpoint(target, os_default, fail)
             /\ last' = Did("next_device", found, fail, target, "none")
             /\ UNCHANGED <<pc, available_devices, popup_menu, config_file, tooltip,
                            close_posted>>
        ELSE /\ os_default' = set_default_endpoint(target, os_default, fail)
             /\ tooltip' = target
             /\ last' = Did("next_device", found, "Ok", target, "none")
             /\ UNCHANGED <<pc, available_devices, popup_menu, config_file, close_posted>>

\* Mutant: the rotation is kept in the list itself: the first device is moved
\* to the back and the new first device is made the default one.
NIN_SELECT_rotates_list ==
    /\ pc = "running"
    /\ available_devices # <<>>
    /\ available_devices' = Tail(available_devices) \o <<Head(available_devices)>>
    /\ os_default' = available_devices'[1].id
    /\ tooltip' = available_devices'[1].id
    /\ last' = Did("next_device", 0, "Ok", available_devices'[1].id, "none")
    /\ logged' = NoError
    /\ UNCHANGED <<pc, popup_menu, config_file, close_posted, faults, native>>

NIN_SELECT ==
    /\ pc = "running"
    /\ \E fail \in Injectable(NextDeviceFailures(available_devices, os_default)) :
          /\ next_device(fail)
          /\ faults' = Counted(fail)
          \* Err(e) => error!("Failed to show popup menu: {e:?}"); a panic in
          \* the callback ends the process before anything is written.
          /\ logged' = (IF last'.ret \in {"Ok", "Panic"} THEN NoError
                        ELSE "Failed to show popup menu")
          /\ UNCHANGED native

----------------------------------------------------------------------------
(* window_callback, WM_COMMAND: menu_selection.                            *)

\* Mutant: an identifier of no device falls back to the first device.
find_device_or_first(devices, device_menu_id) ==
    LET S == {i \in Indices(devices) :
                 device_menu_id = device_id_to_menu_id(devices[i + 1].id)}
    IN  IF S # {} THEN Min(S) ELSE IF devices = <<>> THEN None ELSE 0

\* Mutant: the last device with the identifier is taken (rfind).
find_device_last(devices, device_menu_id) ==
    LET S == {i \in Indices(devices) :
                 device_menu_id = device_id_to_menu_id(devices[i + 1].id)}
    IN  IF S = {} THEN None ELSE Max(S)

\* available_devices.iter_mut().find(|device| device_menu_id ==
\* device_id_to_menu_id(&device.id)): the index of the first such device.
find_device(devices, device_menu_id) ==
    LET S == {i \in Indices(devices) :
                 device_menu_id = device_id_to_menu_id(devices[i + 1].id)}
    IN  IF S = {} THEN None ELSE Min(S)

\* Exit item selected.
exit_selected(id, fail) ==
    IF fail = "PostMessageW"
    THEN /\ last' = Did("menu_selection", id, fail, NoDevice, "none")
         /\ UNCHANGED <<pc, available_devices, popup_menu, os_default, config_file,
                        tooltip, close_posted>>
    ELSE /\ close_posted' = TRUE
         /\ last' = Did("menu_selection", id, "Ok", NoDevice, "none")
         /\ UNCHANGED <<pc, available_devices, popup_menu, os_default, config_file,
                        tooltip>>

\* Mutant: the error of the save is returned.
after_save_propagates(saved) ==
    IF saved.result = "Ok" THEN "Ok" ELSE "save_device_selectable_state"

\* if let Err(e) = save_device_selectable_state(..) { error!(..) } and then
\* return Ok(()): what menu_selection returns after the save.
after_save(saved) == "Ok"

\* Mutant: the arm of an unknown menu item returns a value of its own.
unknown_menu_item_told_apart == "Ok(unknown)"

\* None => { debug!("Unknown menu item selected: ..."); return Ok(()); }
unknown_menu_item == "Ok"

\* Device checked / unchecked in the popup menu.
device_selected(id, fail) ==
    LET device  == find_device(available_devices, id)
        toggled == [available_devices EXCEPT
                       ![device + 1].selectable = ~available_devices[device + 1].selectable]
        item    == MenuItemFromID(popup_menu, id)
        saved   == save_device_selectable_state(toggled, config_file, fail)
    IN  IF device = None
        THEN /\ last' = Did("menu_selection", id, unknown_menu_item, NoDevice, "none")
             /\ UNCHANGED <<pc, available_devices, popup_menu, os_default,
                            config_file, tooltip, close_posted>>
        ELSE IF item = None \/ fail \in {"GetMenuItemInfoW", "SetMenuItemInfoW"}
        THEN /\ available_devices' = toggled
             /\ last' = Did("menu_selection", id,
                            IF fail = "none" THEN "GetMenuItemInfoW" ELSE fail,
                            NoDevice, "none")
             /\ UNCHANGED <<pc, popup_menu, os_default, config_file, tooltip,
                            close_posted>>
        ELSE /\ available_devices' = toggled
             /\ popup_menu' = [popup_menu EXCEPT
                                  ![item].checked = toggled[device + 1].selectable]
             /\ config_file' = saved.file
             /\ last' = Did("menu_selection", id, after_save(saved), NoDevice,
                            saved.result)
             /\ UNCHANGED <<pc, os_default, tooltip, close_posted>>

\* Mutant: the devices are matched before the exit item.
menu_selection_devices_first(id, fail) ==
    IF find_device(available_devices, id) # None THEN device_selected(id, fail)
    ELSE IF id = POPUP_EXIT_ID THEN exit_selected(id, fail)
    ELSE device_selected(id, fail)

\* match id { POPUP_EXIT_ID => .., device_menu_id => .. }
menu_selection(id, fail) ==
    IF id = POPUP_EXIT_ID THEN exit_selected(id, fail)
    ELSE device_selected(id, fail)

\* The calls menu_selection makes, given the devices and the menu id: a call
\* that is not made cannot fail.
MenuSelectionFailures(devices, id) ==
    {"none"} \cup
    (IF id = POPUP_EXIT_ID THEN {"PostMessageW"}
     ELSE IF find_device(devices, id) = None THEN {}
     ELSE {"GetMenuItemInfoW", "SetMenuItemInfoW"} \cup SaveFailures)

\* The wParam values of the WM_COMMAND messages the window receives: the
\* identifiers of menu items, an identifier of no item, and one with a high word.
CommandInputs ==
    {device_id_to_menu_id(d) : d \in AllIds} \cup
    {POPUP_EXIT_ID, POPUP_CURRENT_DEVICE_ID, 7, 65536 + POPUP_EXIT_ID}

WM_COMMAND ==
    /\ pc = "running"
    /\ \E wparam \in CommandInputs :
          \E fail \in Injectable(MenuSelectionFailures(available_devices, LOWORD(wparam))) :
              /\ menu_selection(LOWORD(wparam), fail)
              /\ faults' = Counted(fail)
              \* let _ = ..menu_selection(chosen): the result is dropped; only
              \* menu_selection itself writes, when its save fails.
              /\ logged' = (IF last'.save = "Err"
                            THEN "Failed to save device selectable state"
                            ELSE NoError)
              /\ UNCHANGED native

----------------------------------------------------------------------------
(* window_callback, WM_DESTROY, reached when the posted WM_CLOSE is        *)
(* handled by DefWindowProcW; and the end of the message loop.             *)

\* Mutant: the quit message is posted and the list is not saved.
WM_DESTROY_without_save ==
    /\ pc = "running"
    /\ close_posted
    /\ pc' = "quitting"
    /\ close_posted' = FALSE
    /\ last' = Did("WM_DESTROY", None, "Ok", NoDevice, "none")
    /\ logged' = NoError
    /\ native' = DestroyWindow(native)
    /\ UNCHANGED <<available_devices, popup_menu, os_default, tooltip, config_file,
                   faults>>

WM_DESTROY ==
    /\ pc = "running"
    /\ close_posted
    /\ \E fail \in Injectable({"none"} \cup SaveFailures) :
        LET saved == save_device_selectable_state(available_devices, config_file, fail)
        IN  /\ faults' = Counted(fail)
            /\ config_file' = saved.file
            /\ pc' = "quitting"
            /\ close_posted' = FALSE
            /\ last' = Did("WM_DESTROY", None, "Ok", NoDevice, saved.result)
            \* let _ = save_device_selectable_state(..): nothing is written
            /\ logged' = NoError
            /\ native' = DestroyWindow(native)
            /\ UNCHANGED <<available_devices, popup_menu, os_default, tooltip>>

\* GetMessageW returns 0 on WM_QUIT: the loop breaks, main returns and the
\* AudioSwitch is dropped.
WM_QUIT ==
    /\ pc = "quitting"
    /\ pc' = "exited"
    /\ available_devices' = <<>>
    /\ popup_menu' = <<>>
    /\ tooltip' = NoDevice
    /\ last' = Did("WM_QUIT", None, "Ok", NoDevice, "none")
    /\ logged' = NoError
    /\ native' = leave_main(native, TRUE)
    /\ UNCHANGED <<os_default, config_file, close_posted, faults>>

----------------------------------------------------------------------------
(* The environment: the user or another program makes another endpoint the *)
(* default one, possibly one plugged in after the enumeration.             *)

default_changed ==
    /\ pc = "running"
    /\ \E d \in AllIds \ {os_default} :
        /\ os_default' = d
        /\ last' = Did("default_changed", None, "-", NoDevice, "none")
    /\ UNCHANGED <<pc, available_devices, popup_menu, config_file, tooltip, close_posted,
                   faults, logged, native>>

----------------------------------------------------------------------------

Next ==
    \/ main
    \/ NIN_SELECT
    \/ WM_COMMAND
    \/ WM_DESTROY
    \/ WM_QUIT
    \/ default_changed

Spec == Init /\ [][Next]_vars

----------------------------------------------------------------------------
(* The claims.                                                             *)

Running == pc = "running"

\* The identifiers of the devices of a list that are selectable.
SelectableIds(devices) ==
    {devices[k].id : k \in {j \in 1..Len(devices) : devices[j].selectable}}

\* next_device ran last and read the current default device.
NextDeviceRan ==
    /\ last.op = "next_device"
    /\ last.ret # "get_current_default_endpoint"

\* C1: when next_device has read the current default device, it hands no
\* device to set_default_endpoint if and only if no device of the list is
\* selectable.
C1_NoTargetIffNoneSelectable ==
    NextDeviceRan =>
        ((last.target = NoDevice) <=> (SelectableIds(available_devices) = {}))

\* C1, witness: next_device returned Ok without a target on a list of two or
\* more devices none of which is selectable.
C1_Witness ==
    /\ NextDeviceRan
    /\ last.ret = "Ok"
    /\ last.target = NoDevice
    /\ Len(available_devices) >= 2
    /\ SelectableIds(available_devices) = {}

\* The device next_device makes the default one when the current one is
\* current_device and every call succeeds.
NextId(devices, current_device) ==
    devices[cand_device(devices, current_device) + 1].id

\* The devices n successive calls of next_device return, the first call made
\* when the default device is start, each later one when it is the device the
\* call before returned.
RECURSIVE Visits(_, _, _)
Visits(devices, start, n) ==
    IF n = 0 THEN <<>>
    ELSE LET returned == NextId(devices, start)
         IN  <<returned>> \o Visits(devices, returned, n - 1)

\* C2: with the list and its flags fixed and k >= 1 devices selectable, from
\* any current device the first k calls of next_device return every selectable
\* device, each once, and call k + 1 returns the device the first call returned.
C2_Cycle ==
    Running =>
        \A start \in AllIds :
            LET sel == SelectableIds(available_devices)
                k   == Cardinality(sel)
                v   == Visits(available_devices, start, k + 1)
            IN  k >= 1 =>
                    /\ {v[j] : j \in 1..k} = sel
                    /\ v[k + 1] = v[1]

\* C2, witness: three devices, all selectable, and next_device has just wrapped
\* around from the last one to the first.
C2_Witness ==
    /\ Running
    /\ Len(available_devices) = 3
    /\ Cardinality(SelectableIds(available_devices)) = 3
    /\ NextDeviceRan
    /\ last.ret = "Ok"
    /\ last.target = available_devices[1].id
    /\ os_default = available_devices[1].id

\* The index (from 0) of a device of the list, by its identifier.
IndexOf(devices, device_id) ==
    CHOOSE i \in Indices(devices) : devices[i + 1].id = device_id

\* C3: when the current default device is in the list and some device is
\* selectable, the device next_device hands to set_default_endpoint is the
\* selectable device of least index above the current one's, and the selectable
\* device of least index when there is none above; it is selectable.
C3_TargetIsNextSelectable ==
    [][(/\ last'.op = "next_device"
        /\ last'.ret # "get_current_default_endpoint"
        /\ os_default \in {available_devices[k].id : k \in 1..Len(available_devices)}
        /\ SelectableIds(available_devices) # {})
       =>
       LET devs   == available_devices
           cur    == IndexOf(devs, os_default)
           sel    == {i \in Indices(devs) : devs[i + 1].selectable}
           above  == {i \in sel : i > cur}
           expect == IF above # {} THEN Min(above) ELSE Min(sel)
       IN  /\ last'.target = devs[expect + 1].id
           /\ devs[expect + 1].selectable
           /\ last'.ret = "Ok" => os_default' = devs[expect + 1].id]_vars

\* C3, witness: of three devices the first and the third are selectable and
\* the second is not, and next_device has made the third the default one.
C3_Witness ==
    /\ Len(available_devices) = 3
    /\ available_devices[1].selectable
    /\ ~available_devices[2].selectable
    /\ available_devices[3].selectable
    /\ NextDeviceRan
    /\ last.ret = "Ok"
    /\ last.target = available_devices[3].id
    /\ os_default = available_devices[3].id

\* The devices of a list (by place, from 1) whose menu identifier is id.
Matching(devices, id) ==
    {k \in 1..Len(devices) : device_id_to_menu_id(devices[k].id) = id}

\* The list with the selectable flag of the device at place k flipped.
Flipped(devices, k) ==
    [devices EXCEPT ![k].selectable = ~devices[k].selectable]

\* C4: menu_selection with an identifier other than the exit item's flips the
\* selectable flag of a device with that menu identifier and of no other
\* device; when no device of the list has it, no flag changes, the file is not
\* written and Ok is returned.
C4_ToggleOrNoOp ==
    [][(last'.op = "menu_selection" /\ last'.arg # POPUP_EXIT_ID)
       =>
       IF Matching(available_devices, last'.arg) = {}
       THEN /\ available_devices' = available_devices
            /\ config_file' = config_file
            /\ popup_menu' = popup_menu
            /\ last'.save = "none"
            /\ last'.ret = "Ok"
       ELSE \E k \in Matching(available_devices, last'.arg) :
                available_devices' = Flipped(available_devices, k)]_vars

\* C4, witness: menu_selection was given the menu identifier of an endpoint
\* that is not in the list, whose devices have other identifiers, and
\* returned Ok without a save.
C4_Witness ==
    /\ Running
    /\ Len(available_devices) >= 2
    /\ last.op = "menu_selection"
    /\ last.ret = "Ok"
    /\ last.save = "none"
    /\ last.arg # POPUP_EXIT_ID
    /\ Matching(available_devices, last.arg) = {}
    /\ \E d \in AllIds : last.arg = device_id_to_menu_id(d)

\* A freshly enumerated list with the identifiers of devices.
Fresh(devices) ==
    [k \in 1..Len(devices) |-> [devices[k] EXCEPT !.selectable = TRUE]]

\* C5: saving the list, loading what was saved and applying it to a freshly
\* enumerated list of the same identifiers gives every device the flag it had
\* when the list was saved.
C5_RoundTrip ==
    (pc \in {"running", "quitting"}) =>
        LET saved  == save_device_selectable_state(available_devices, config_file, "none")
            loaded == load_device_selectable_state(saved.file, "none")
        IN  /\ saved.result = "Ok"
            /\ loaded.result = "Ok"
            /\ apply_device_selectable_state(Fresh(available_devices), loaded.map)
                   = available_devices

\* C5, witness: a list with a selectable and an unselectable device has just
\* been saved.
C5_Witness ==
    /\ Running
    /\ last.save = "Ok"
    /\ \E i, j \in 1..Len(available_devices) :
          available_devices[i].selectable /\ ~available_devices[j].selectable
    /\ config_file.kind = "json"
    /\ \A k \in 1..Len(available_devices) :
          <<available_devices[k].id, available_devices[k].selectable>> \in config_file.text

\* The saved map main loads from a file.
SavedMap(file) ==
    IF file.kind = "json" THEN from_str(file.text) ELSE EmptyMap

\* C6: the list main builds is an enumerated list in which a device whose
\* identifier is a key of the saved map has the saved flag and every other
\* device is selectable; keys of no enumerated device add and remove nothing.
C6_ApplyFrame ==
    [][(pc = "start" /\ pc' = "running")
       =>
       \E enumerated \in Enumerations :
           /\ Len(available_devices') = Len(enumerated)
           /\ \A k \in 1..Len(enumerated) :
                 /\ available_devices'[k].id = enumerated[k].id
                 /\ available_devices'[k].selectable =
                        IF enumerated[k].id \in DOMAIN SavedMap(config_file)
                        THEN SavedMap(config_file)[enumerated[k].id]
                        ELSE TRUE]_vars

\* C6, witness: main has started on a file whose key, with value false, is the
\* identifier of an enumerated device, and the list holds that device,
\* unselectable, and another device, of no key, which is selectable.
C6_Witness ==
    /\ Running
    /\ last.op = "main"
    /\ config_file.kind = "json"
    /\ \E k \in 1..Len(available_devices) :
          /\ <<available_devices[k].id, FALSE>> \in config_file.text
          /\ ~available_devices[k].selectable
    /\ \E k \in 1..Len(available_devices) :
          /\ available_devices[k].id \notin DOMAIN SavedMap(config_file)
          /\ available_devices[k].selectable

\* The place in the popup menu of the item of the device at place k of the
\* list: the title, the current-device label and a separator come first.
DeviceItem(k) == k + 3

\* C7: the identifier each device's menu item was given when the menu was
\* built is the one device_id_to_menu_id gives at dispatch, it lies in
\* 0..65535, and LOWORD of the WM_COMMAND wParam leaves it unchanged, so that
\* the dispatch finds a device with that menu identifier.
C7_MenuIdSurvivesLoword ==
    Running =>
        \A k \in 1..Len(available_devices) :
            LET wID == popup_menu[DeviceItem(k)].wID
            IN  /\ wID = device_id_to_menu_id(available_devices[k].id)
                /\ wID \in 0..65535
                /\ LOWORD(wID) = wID
                /\ find_device(available_devices, LOWORD(wID)) # None

\* C7, witness: a WM_COMMAND carrying the identifier of a device's menu item
\* was dispatched and toggled a device of the list.
C7_Witness ==
    /\ Running
    /\ last.op = "menu_selection"
    /\ last.save = "Ok"
    /\ \E k \in 1..Len(available_devices) :
          /\ last.arg = popup_menu[DeviceItem(k)].wID
          /\ last.arg = device_id_to_menu_id(available_devices[k].id)
          /\ ~available_devices[k].selectable

\* C8 as stated: no device of the list has the identifier of the exit item or
\* of the current-device label as its menu identifier.
C8_NeverReserved ==
    Running =>
        \A k \in 1..Len(available_devices) :
            device_id_to_menu_id(available_devices[k].id)
                \notin {POPUP_EXIT_ID, POPUP_CURRENT_DEVICE_ID}

\* C8, amended: the codec is the plain CRC-16/ARC and does give a reserved
\* value for some identifiers; a menu command with the exit identifier is then
\* handled as exit: it toggles no device, changes neither menu nor file, and
\* posts the close request when PostMessageW succeeds.
C8_ExitIdNeverToggles ==
    [][(last'.op = "menu_selection" /\ last'.arg = POPUP_EXIT_ID)
       =>
       /\ available_devices' = available_devices
       /\ popup_menu' = popup_menu
       /\ config_file' = config_file
       /\ last'.save = "none"
       /\ (last'.ret = "Ok" => close_posted')]_vars

\* C8, witness: a device of the list has the exit item's identifier as its
\* menu identifier, and menu_selection with that identifier posted the close
\* request.
C8_Witness ==
    /\ Running
    /\ \E k \in 1..Len(available_devices) :
          device_id_to_menu_id(available_devices[k].id) = POPUP_EXIT_ID
    /\ last.op = "menu_selection"
    /\ last.arg = POPUP_EXIT_ID
    /\ last.ret = "Ok"
    /\ close_posted

\* C9: a toggle whose save fails returns Ok, leaves the flag of the toggled
\* device flipped and leaves the process running.
C9_FailedSaveKeepsToggle ==
    [][(last'.op = "menu_selection" /\ last'.save = "Err")
       =>
       /\ last'.ret = "Ok"
       /\ pc' = "running"
       /\ \E k \in Matching(available_devices, last'.arg) :
             available_devices' = Flipped(available_devices, k)]_vars

\* C9, witness: a toggle's save failed, the device is unselectable in memory,
\* the file does not say so, and the process is running.
C9_Witness ==
    /\ Running
    /\ last.op = "menu_selection"
    /\ last.save = "Err"
    /\ last.ret = "Ok"
    /\ \E k \in Matching(available_devices, last.arg) :
          /\ ~available_devices[k].selectable
          /\ <<available_devices[k].id, FALSE>> \notin config_file.text

\* C10 as stated: after a successful save the file holds exactly the members
\* identifier: selectable of the devices of the list, and every toggle that
\* changes a flag makes a save.
C10_SavedAfterEachToggle ==
    [][/\ (last'.save = "Ok") =>
              /\ config_file'.kind = "json"
              /\ config_file'.text =
                    {<<available_devices'[k].id, available_devices'[k].selectable>> :
                        k \in 1..Len(available_devices')}
       /\ (last'.op = "menu_selection" /\ available_devices' # available_devices)
              => last'.save # "none"]_vars

\* C11: when set_default_endpoint fails in next_device, the default endpoint,
\* the tooltip, the device list with its flags, the menu and the file are
\* left as they were, the callback writes the error, and the process keeps
\* running.
C11_SetDefaultFailureRecovered ==
    [][(last'.op = "next_device" /\ last'.ret = "set_default_endpoint")
       =>
       /\ os_default' = os_default
       /\ tooltip' = tooltip
       /\ available_devices' = available_devices
       /\ popup_menu' = popup_menu
       /\ config_file' = config_file
       /\ logged' = "Failed to show popup menu"
       /\ pc = "running" /\ pc' = "running"]_vars

\* C11, witness: next_device chose a device other than the default one,
\* set_default_endpoint failed, and the default endpoint and the tooltip are
\* still the device of before.
C11_Witness ==
    /\ Running
    /\ last.op = "next_device"
    /\ last.ret = "set_default_endpoint"
    /\ last.target \in SelectableIds(available_devices)
    /\ last.target # os_default
    /\ tooltip = os_default
    /\ logged = "Failed to show popup menu"

\* C12: when the query for the current default device fails in next_device
\* and some device is selectable, the rotation goes on as if the device at
\* index 0 were the current one: the device after it in the rotation is handed
\* to set_default_endpoint and made the default one.
C12_QueryFailureFallsBackToIndex0 ==
    [][(/\ last'.op = "next_device"
        /\ last'.ret = "get_current_default_endpoint"
        /\ SelectableIds(available_devices) # {})
       =>
       /\ last'.target = NextId(available_devices, available_devices[1].id)
       /\ os_default' = last'.target]_vars

\* The identifiers of the devices of a list.
Ids(devices) == {devices[k].id : k \in 1..Len(devices)}

\* C13: when the current default device is not in the list, next_device hands
\* to set_default_endpoint the device it would hand over if the device at
\* index 0 were the current one: the selectable device of least index above
\* 0, and the device at index 0 only when it is the one selectable device.
C13_AbsentCurrentIsIndex0 ==
    [][(/\ last'.op = "next_device"
        /\ last'.ret # "get_current_default_endpoint"
        /\ os_default \notin Ids(available_devices)
        /\ SelectableIds(available_devices) # {})
       =>
       LET devs  == available_devices
           above == {i \in Indices(devs) : i > 0 /\ devs[i + 1].selectable}
       IN  /\ last'.target = NextId(devs, devs[1].id)
           /\ last'.target = IF above # {} THEN devs[Min(above) + 1].id ELSE devs[1].id
           /\ (last'.target = devs[1].id) => (above = {} /\ devs[1].selectable)]_vars

\* C13, witness: the default device is not in a list of three selectable
\* devices, and next_device has made the second device the default one.
C13_Witness ==
    /\ Running
    /\ last.op = "next_device"
    /\ last.ret = "Ok"
    /\ Len(available_devices) = 3
    /\ Cardinality(SelectableIds(available_devices)) = 3
    /\ last.arg = None
    /\ last.target = available_devices[2].id
    /\ os_default = available_devices[2].id
    /\ tooltip = available_devices[2].id

\* menu_selection ran last, on an identifier other than the exit item's that is
\* the menu identifier of a device of the list, and returned after its save.
ToggleFlipped(did, devices) ==
    /\ did.op = "menu_selection"
    /\ did.arg # POPUP_EXIT_ID
    /\ Matching(devices, did.arg) # {}
    /\ did.save # "none"

\* menu_selection ran last, on an identifier other than the exit item's that is
\* the menu identifier of no device of the list.
ToggleNotFound(did, devices) ==
    /\ did.op = "menu_selection"
    /\ did.arg # POPUP_EXIT_ID
    /\ Matching(devices, did.arg) = {}

\* C14 as stated: a toggle that matches no device returns a value other than
\* the one the toggle before it, which flipped a flag, returned.
C14_ReturnTellsNotFound ==
    [][(/\ ToggleFlipped(last, available_devices)
        /\ ToggleNotFound(last', available_devices'))
       => last'.ret # last.ret]_vars

\* C14, amended: a toggle that matches no device changes nothing and returns
\* Ok, the very value the toggle before it, which flipped a flag, returned.
C14_ReturnSameForNotFound ==
    [][(/\ ToggleFlipped(last, available_devices)
        /\ ToggleNotFound(last', available_devices'))
       =>
       /\ last.ret = "Ok"
       /\ last'.ret = last.ret
       /\ available_devices' = available_devices
       /\ popup_menu' = popup_menu
       /\ config_file' = config_file]_vars

\* C14, witness: after a toggle has made a device unselectable and saved the
\* list, a toggle with the menu identifier of a device that is not in the list
\* has returned Ok.
C14_Witness ==
    /\ Running
    /\ ToggleNotFound(last, available_devices)
    /\ last.ret = "Ok"
    /\ \E d \in AllIds \ Ids(available_devices) : last.arg = device_id_to_menu_id(d)
    /\ Len(available_devices) >= 2
    /\ config_file.kind = "json"
    /\ from_str(config_file.text) = device_states(available_devices)
    /\ \E k \in 1..Len(available_devices) : ~available_devices[k].selectable

\* C15 as stated: when two devices of the list have one menu identifier, a
\* toggle with that identifier flips the flag of the later of them and of no
\* other device.
C15_LaterDeviceShadows ==
    [][(/\ last'.op = "menu_selection"
        /\ last'.arg # POPUP_EXIT_ID
        /\ Cardinality(Matching(available_devices, last'.arg)) >= 2)
       =>
       available_devices' =
           Flipped(available_devices, Max(Matching(available_devices, last'.arg)))]_vars

\* C15, amended: when two devices of the list have one menu identifier, a
\* toggle with that identifier flips the flag of the earlier of them and
\* leaves the flag of the later one as it was.
C15_EarlierDeviceShadows ==
    [][(/\ last'.op = "menu_selection"
        /\ last'.arg # POPUP_EXIT_ID
        /\ Cardinality(Matching(available_devices, last'.arg)) >= 2)
       =>
       LET earlier == Min(Matching(available_devices, last'.arg))
           later   == Max(Matching(available_devices, last'.arg))
       IN  /\ earlier < later
           /\ available_devices' = Flipped(available_devices, earlier)
           /\ available_devices'[later].selectable = available_devices[later].selectable]_vars

\* C15, witness: usb and asm, in this order, have one menu identifier; a toggle
\* with it was handled and saved, usb is unselectable and its menu item
\* unchecked, asm is selectable and its menu item checked.
C15_Witness ==
    /\ Running
    /\ last.op = "menu_selection"
    /\ last.save = "Ok"
    /\ \E i, j \in 1..Len(available_devices) :
          /\ i < j
          /\ available_devices[i].id # available_devices[j].id
          /\ last.arg = device_id_to_menu_id(available_devices[i].id)
          /\ last.arg = device_id_to_menu_id(available_devices[j].id)
          /\ ~available_devices[i].selectable
          /\ available_devices[j].selectable
          /\ ~popup_menu[DeviceItem(i)].checked
          /\ popup_menu[DeviceItem(j)].checked

\* C16: a configuration file that exists and cannot be read or parsed does
\* not abort startup: main does not return the error of the load, and when
\* it reaches the message loop on such a file every enumerated device is
\* selectable.
C16_LoadErrorFallsBackToEmpty ==
    [][(pc = "start" /\ last'.op = "main" /\ config_file.kind # "absent")
       =>
       /\ last'.ret \notin {"fs::read_to_string", "serde_json::from_str"}
       /\ (pc' = "running" /\ config_file.kind = "malformed")
              => \A k \in 1..Len(available_devices') : available_devices'[k].selectable]_vars

\* C17: when main has returned, by an early return or after the message loop,
\* nothing it acquired is still held: every CoInitializeEx is balanced, the
\* window class is unregistered, the popup menu is destroyed and the
\* notification icon is deleted.
C17_AllReleasedWhenMainReturns ==
    (pc \in {"aborted", "exited"}) =>
        /\ native.com = 0
        /\ ~native.class
        /\ ~native.menu
        /\ ~native.tray

\* C18: once the message loop runs, no handling of a click on the tray icon
\* (next_device) or of a menu command (menu_selection) ends the process: the
\* handler returns, with Ok or with an error, and the loop goes on.
C18_HandlersKeepProcessAlive ==
    [][(pc = "running" /\ last'.op \in {"next_device", "menu_selection"})
       => (pc' = "running" /\ last'.ret # "Panic")]_vars

\* C19: the exit item posts the close request and toggles no device; the
\* window is destroyed only on a posted close request, and its handler saves
\* the whole current list, then posts the quit message; the message loop ends
\* only on that quit message, with the file left as that save wrote it, so
\* that a save that succeeded has persisted the flags in memory at exit.
C19_ExitOrdering ==
    [][/\ (last'.op = "menu_selection" /\ last'.arg = POPUP_EXIT_ID /\ last'.ret = "Ok")
            => (close_posted' /\ available_devices' = available_devices
                /\ pc' = "running")
       /\ (pc = "running" /\ pc' = "quitting")
            => /\ close_posted
               /\ last'.op = "WM_DESTROY"
               /\ last'.save \in {"Ok", "Err"}
               /\ available_devices' = available_devices
               /\ (last'.save = "Ok") =>
                      /\ config_file'.kind = "json"
                      /\ from_str(config_file'.text) = device_states(available_devices)
                      /\ \A k \in 1..Len(available_devices) :
                            from_str(config_file'.text)[available_devices[k].id]
                                = available_devices[k].selectable
       /\ (pc # "exited" /\ pc' = "exited")
            => /\ pc = "quitting"
               /\ last.op = "WM_DESTROY"
               /\ config_file' = config_file]_vars

\* C19, witness: the window has been destroyed on the close request of the
\* exit item, the save made there succeeded and the quit message is posted;
\* the file holds the flags of the two or more devices in memory, one of them
\* unselectable.
C19_Witness ==
    /\ pc = "quitting"
    /\ last.op = "WM_DESTROY"
    /\ last.save = "Ok"
    /\ ~close_posted
    /\ ~native.window
    /\ Len(available_devices) >= 2
    /\ \E k \in 1..Len(available_devices) : ~available_devices[k].selectable
    /\ config_file = JsonFile(to_string_pretty(device_states(available_devices)))

\* The flag a device of identifier device_id has in the persisted map of a
\* file; a device the map does not name has the flag of a freshly enumerated
\* one.
PersistedFlag(file, device_id) ==
    IF device_id \in DOMAIN SavedMap(file) THEN SavedMap(file)[device_id] ELSE TRUE

\* C20: after startup and after every toggle of a device of the list whose
\* save did not fail, whatever the native menu calls returned, each device's
\* selectable flag, the checked state of its menu item and its flag in the
\* persisted map are the same.
C20_FlagMenuFileAgree ==
    (/\ Running
     /\ \/ last.op = "main"
        \/ /\ last.op = "menu_selection"
           /\ last.arg # POPUP_EXIT_ID
           /\ Matching(available_devices, last.arg) # {}
           /\ last.save # "Err")
    =>
    \A k \in 1..Len(available_devices) :
        /\ popup_menu[DeviceItem(k)].checked = available_devices[k].selectable
        /\ PersistedFlag(config_file, available_devices[k].id)
               = available_devices[k].selectable

\* The identifiers of the devices of a list, in list order.
IdSeq(devices) == [k \in 1..Len(devices) |-> devices[k].id]

\* C21: next_device, whatever it returns, leaves the device list (its devices,
\* their order and identifiers), every selectable flag, the popup menu, the
\* persisted map and the close request as they were; of the default endpoint
\* and the tooltip, the only things it changes, each stays or becomes the
\* device handed to set_default_endpoint.  While the message loop runs no
\* event changes the devices of the list, their order or their identifiers.
C21_NextDeviceFrame ==
    [][/\ (last'.op = "next_device")
            => /\ available_devices' = available_devices
               /\ popup_menu' = popup_menu
               /\ config_file' = config_file
               /\ close_posted' = close_posted
               /\ os_default' \in {os_default, last'.target}
               /\ tooltip' \in {tooltip, last'.target}
       /\ (pc = "running" /\ pc' \in {"running", "quitting", "crashed"})
            => IdSeq(available_devices') = IdSeq(available_devices)]_vars

\* C21, witness: on a list of two or more devices, one of them unselectable,
\* whose flags are the ones in the file, next_device has made another device
\* the default one and set the tooltip to it.
C21_Witness ==
    /\ Running
    /\ last.op = "next_device"
    /\ last.ret = "Ok"
    /\ last.arg # None
    /\ last.target # available_devices[last.arg + 1].id
    /\ os_default = last.target
    /\ tooltip = last.target
    /\ Len(available_devices) >= 2
    /\ \E k \in 1..Len(available_devices) : ~available_devices[k].selectable
    /\ config_file = JsonFile(to_string_pretty(device_states(available_devices)))

====
